---- MODULE Spec2Model ----
(***************************************************************************)
(* Model of icbc_checker.py: the Discord on_ready handler, the             *)
(* tasks.loop poll cycle check_appointments, and the ICBCChecker browser   *)
(* session it drives (setup_driver, login, check_availability, close).     *)
(*                                                                         *)
(* The poll cycle is one coroutine.  Its Selenium calls are blocking, so   *)
(* the only points at which the event loop can run another handler are     *)
(* the two `await channel.send(...)` calls (pc = "send", pc = "errsend")   *)
(* and the sleep between iterations (pc = "idle").                         *)
(***************************************************************************)
EXTENDS Integers, Sequences, FiniteSets, TLC

\* ---- bounds ----
NumSlots == 2        \* distinct slot descriptions the site can show
MaxAppts == 2        \* length of the list check_availability returns
MaxReady == 2        \* ready events delivered by the gateway
MaxSessions == 2     \* browser sessions that can be open at once

Slots == 1..NumSlots

\* ---- program constants ----
MAX_RETRIES == 3     \* defined at line 68 and used nowhere

VARIABLES
    previous_appointments,  \* global set, line 76
    pc,                     \* position of the check_appointments coroutine
    checker,                \* TRUE iff local `checker` is bound (not None)
    openSessions,           \* browser sessions started and not yet quit
    current_appointments,   \* local set, line 326
    pending,                \* message handed to channel.send, awaiting it
    selected,               \* availability message composed in this cycle
    delivered,              \* messages the channel accepted in this cycle
    prevAtStart,            \* previous_appointments when the cycle began
    setupResult,            \* "none" | "ok" | "nobrowser" | "partial"
    loginResult,            \* "none" | "ok" | "fail"
    fetchResult,            \* "none" | "ok" | "fail"
    sendFailed,             \* a channel.send raised in this cycle
    notifyChannel,          \* get_channel at line 329: "unset"|"found"|"missing"
    exceptChannel,          \* get_channel at line 367: "unset"|"found"|"missing"
    closeResult,            \* "none" | "ok" | "error" | "skipped"
    loopTasks,              \* running tasks of the check_appointments loop
    inFlight,               \* poll cycles begun and not yet completed
    readyCount,             \* ready events delivered so far
    readyPending,           \* on_ready handlers suspended in channel.send
    startupDelivered,       \* startup messages the channel accepted
    startupSendFailed,      \* a startup channel.send raised
    startRejected,          \* check_appointments.start() raised RuntimeError
    sessionsAcquired,       \* browsers started by this cycle
    loginAttempts,          \* calls of login() in this cycle
    fetchAttempts,          \* calls of check_availability() in this cycle
    prevCycle,              \* the cycle before this one: did it log in and
                            \* fetch, and which snapshot did it fetch (kept
                            \* until this cycle's fetch is compared with it)
    repeated,               \* this cycle and the one before it both logged
                            \* in and fetched, and fetched the same snapshot
    config,                 \* the environment the process was started with
    proc,                   \* "starting" | "running" | "exited"
    exitStatus,             \* exit status once exited, -1 before
    announced               \* slots delivered in a NewSlots message and
                            \* present in every snapshot fetched since

cycleVars == <<pc, checker, current_appointments, pending, selected,
               delivered, prevAtStart, setupResult, loginResult, fetchResult,
               sendFailed, notifyChannel, exceptChannel, closeResult>>
readyVars == <<readyCount, readyPending, startupDelivered, startupSendFailed,
               startRejected>>
startVars == <<config, proc, exitStatus>>
attemptVars == <<sessionsAcquired, loginAttempts, fetchAttempts>>
vars == <<previous_appointments, openSessions, loopTasks, inFlight,
          cycleVars, readyVars, attemptVars, prevCycle, repeated,
          startVars, announced>>

\* ---- messages ----
NoMsg == [kind |-> "None", slots |-> {}]
NewSlots(S) == [kind |-> "NewSlots", slots |-> S]
NoneAvailable == [kind |-> "NoneAvailable", slots |-> {}]
UnchangedAvailable(S) == [kind |-> "UnchangedAvailable", slots |-> S]
ErrorMsg == [kind |-> "Error", slots |-> {}]

AvailabilityKinds == {"NewSlots", "NoneAvailable", "UnchangedAvailable"}

\* ---- pure helpers ----
\* no earlier cycle to compare with
NoPrevCycle == [ok |-> FALSE, fetched |-> {}]

\* the lists check_availability can return
ApptLists == UNION {[1..n -> Slots] : n \in 0..MaxAppts}

\* set(appointments)
ToSet(list) == {list[i] : i \in 1..Len(list)}

\* a mis-port of the if/elif/else: the alert carries the whole snapshot
SelectNotificationWhole(prev, cur) ==
    LET new_appointments == cur \ prev IN
    IF new_appointments # {} THEN NewSlots(cur)
    ELSE IF cur = {} THEN NoneAvailable
    ELSE UnchangedAvailable(cur)

\* the if/elif/else of lines 334-357
SelectNotification(prev, cur) ==
    LET new_appointments == cur \ prev IN
    IF new_appointments # {} THEN NewSlots(new_appointments)
    ELSE IF cur = {} THEN NoneAvailable
    ELSE UnchangedAvailable(cur)

\* points at which the coroutine is not holding the event loop
AwaitPoints == {"idle", "send", "errsend"}

\* ---- configuration ----
\* os.getenv of the five required variables ("missing": unset or empty),
\* and of the optional CHECK_INTERVAL_MINUTES ("parses": unset, so that the
\* default '5' is used, or set to text that int() accepts)
RequiredKeys == {"last_name", "license_number", "keyword", "bot_token",
                 "channel_id"}

Configs ==
    [last_name : {"missing", "set"},
     license_number : {"missing", "set"},
     keyword : {"missing", "set"},
     bot_token : {"missing", "set"},
     channel_id : {"missing", "nonint", "int"},
     check_interval : {"parses", "malformed"}]

\* a start-up that relies on the import-time checks only
StartupOutcomeImportOnly(cfg) ==
    IF cfg.channel_id = "missing" THEN "exit1"
    ELSE IF cfg.channel_id = "nonint" THEN "exit1"
    ELSE IF cfg.check_interval = "malformed" THEN "exit1"
    ELSE "run"

\* module import, then the __main__ block: exit(1) at line 58 when the
\* channel id is unset/empty, exit(1) at line 64 when int() rejects it, an
\* uncaught ValueError at line 67 (status 1) when the interval is not an
\* integer, exit(1) at line 388 when any required variable is unset/empty,
\* else client.run
StartupOutcome(cfg) ==
    IF cfg.channel_id = "missing" THEN "exit1"
    ELSE IF cfg.channel_id = "nonint" THEN "exit1"
    ELSE IF cfg.check_interval = "malformed" THEN "exit1"
    ELSE IF \E k \in RequiredKeys : cfg[k] = "missing" THEN "exit1"
    ELSE "run"

Init ==
    /\ previous_appointments = {}
    /\ pc = "idle"
    /\ checker = FALSE
    /\ openSessions = 0
    /\ current_appointments = {}
    /\ pending = NoMsg
    /\ selected = NoMsg
    /\ delivered = <<>>
    /\ prevAtStart = {}
    /\ setupResult = "none"
    /\ loginResult = "none"
    /\ fetchResult = "none"
    /\ sendFailed = FALSE
    /\ notifyChannel = "unset"
    /\ exceptChannel = "unset"
    /\ closeResult = "none"
    /\ loopTasks = 0
    /\ inFlight = 0
    /\ readyCount = 0
    /\ readyPending = 0
    /\ startupDelivered = 0
    /\ startupSendFailed = FALSE
    /\ startRejected = FALSE
    /\ sessionsAcquired = 0
    /\ loginAttempts = 0
    /\ fetchAttempts = 0
    /\ prevCycle = NoPrevCycle
    /\ repeated = FALSE
    /\ config \in Configs
    /\ proc = "starting"
    /\ exitStatus = -1
    /\ announced = {}

\* ---- start-up ----

\* the interpreter runs the module top to bottom
Startup ==
    /\ proc = "starting"
    /\ IF StartupOutcome(config) = "exit1"
       THEN /\ proc' = "exited"
            /\ exitStatus' = 1
       ELSE /\ proc' = "running"
            /\ UNCHANGED exitStatus
    /\ UNCHANGED <<previous_appointments, openSessions, loopTasks, inFlight,
                   cycleVars, readyVars, attemptVars, prevCycle, repeated,
                   config, announced>>

\* ---- on_ready ----

\* a start() that launches a task even when one is already running
StartLoopUnguarded ==
    /\ loopTasks' = loopTasks + 1
    /\ UNCHANGED startRejected

\* check_appointments.start(): Loop.start raises RuntimeError when the task
\* is already launched and not done; the event dispatcher logs it
StartLoop ==
    IF loopTasks = 0
    THEN /\ loopTasks' = 1
         /\ UNCHANGED startRejected
    ELSE /\ startRejected' = TRUE
         /\ UNCHANGED loopTasks

\* on_ready up to its await: channel lookup, then either suspend in
\* channel.send or, with no channel, go straight to start()
OnReady ==
    /\ proc = "running"
    /\ pc \in AwaitPoints
    /\ readyCount < MaxReady
    /\ readyCount' = readyCount + 1
    /\ \E channel \in BOOLEAN :
          IF channel
          THEN /\ readyPending' = readyPending + 1
               /\ UNCHANGED <<loopTasks, startRejected>>
          ELSE /\ StartLoop
               /\ UNCHANGED readyPending
    /\ UNCHANGED <<previous_appointments, openSessions, inFlight, cycleVars,
                   startupDelivered, startupSendFailed>>
    /\ UNCHANGED <<attemptVars>>
    /\ UNCHANGED <<prevCycle, repeated>>
    /\ UNCHANGED <<startVars>>
    /\ UNCHANGED <<announced>>

\* a handler that gives up when the startup send raises
OnReadySendDoneAbort ==
    /\ pc \in AwaitPoints
    /\ readyPending > 0
    /\ readyPending' = readyPending - 1
    /\ \E ok \in BOOLEAN :
          IF ok
          THEN /\ startupDelivered' = startupDelivered + 1
               /\ UNCHANGED startupSendFailed
               /\ StartLoop
          ELSE /\ startupSendFailed' = TRUE
               /\ UNCHANGED <<startupDelivered, loopTasks, startRejected>>
    /\ UNCHANGED <<previous_appointments, openSessions, inFlight, cycleVars,
                   readyCount>>
    /\ UNCHANGED <<attemptVars>>
    /\ UNCHANGED <<prevCycle, repeated>>
    /\ UNCHANGED <<startVars>>
    /\ UNCHANGED <<announced>>

\* on_ready resumed from channel.send: delivered, or raised and logged;
\* start() is called either way
OnReadySendDone ==
    /\ pc \in AwaitPoints
    /\ readyPending > 0
    /\ readyPending' = readyPending - 1
    /\ \E ok \in BOOLEAN :
          IF ok
          THEN /\ startupDelivered' = startupDelivered + 1
               /\ UNCHANGED startupSendFailed
          ELSE /\ startupSendFailed' = TRUE
               /\ UNCHANGED startupDelivered
    /\ StartLoop
    /\ UNCHANGED <<previous_appointments, openSessions, inFlight, cycleVars,
                   readyCount>>
    /\ UNCHANGED <<attemptVars>>
    /\ UNCHANGED <<prevCycle, repeated>>
    /\ UNCHANGED <<startVars>>
    /\ UNCHANGED <<announced>>

\* ---- check_appointments ----

\* tasks.loop: an iteration begins only when a started loop task has no
\* iteration in flight, and only while the event loop is free
TickEnabled == loopTasks > inFlight /\ pc \in AwaitPoints

\* timer tick: a new iteration begins with checker = None
Tick ==
    /\ TickEnabled
    /\ inFlight' = inFlight + 1
    /\ pc' = "setup"
    /\ checker' = FALSE
    /\ current_appointments' = {}
    /\ pending' = NoMsg
    /\ selected' = NoMsg
    /\ delivered' = <<>>
    /\ prevAtStart' = previous_appointments
    /\ setupResult' = "none"
    /\ loginResult' = "none"
    /\ fetchResult' = "none"
    /\ sendFailed' = FALSE
    /\ notifyChannel' = "unset"
    /\ exceptChannel' = "unset"
    /\ closeResult' = "none"
    /\ UNCHANGED <<previous_appointments, openSessions, loopTasks, readyVars>>
    /\ sessionsAcquired' = 0
    /\ loginAttempts' = 0
    /\ fetchAttempts' = 0
    /\ prevCycle' = IF loginResult = "ok" /\ fetchResult = "ok"
                    THEN [ok |-> TRUE, fetched |-> current_appointments]
                    ELSE NoPrevCycle
    /\ repeated' = FALSE
    /\ UNCHANGED <<startVars>>
    /\ UNCHANGED <<announced>>

\* checker = ICBCChecker(): __init__ runs setup_driver.  It raises either
\* before webdriver.Chrome returned (no browser), or after it (the browser
\* runs, but the exception leaves `checker` unbound), or it succeeds
SetupDriver ==
    /\ pc = "setup"
    /\ \/ /\ setupResult' = "nobrowser"
          /\ pc' = "except"
          /\ UNCHANGED <<checker, openSessions>>
       \/ /\ openSessions + 1 < MaxSessions
          /\ setupResult' = "partial"
          /\ openSessions' = openSessions + 1
          /\ pc' = "except"
          /\ UNCHANGED checker
       \/ /\ setupResult' = "ok"
          /\ openSessions' = openSessions + 1
          /\ checker' = TRUE
          /\ pc' = "login"
    /\ UNCHANGED <<previous_appointments, loopTasks, inFlight, readyVars,
                   current_appointments, pending, selected, delivered,
                   prevAtStart, loginResult, fetchResult, sendFailed,
                   notifyChannel, exceptChannel, closeResult>>
    /\ sessionsAcquired' = sessionsAcquired + (IF setupResult' = "nobrowser" THEN 0 ELSE 1)
    /\ UNCHANGED <<loginAttempts, fetchAttempts>>
    /\ prevCycle' = IF setupResult' = "ok" THEN prevCycle ELSE NoPrevCycle
    /\ UNCHANGED repeated
    /\ UNCHANGED <<startVars>>
    /\ UNCHANGED <<announced>>

\* a login that is tried again, up to MAX_RETRIES times, when it fails
LoginRetries ==
    /\ pc = "login"
    /\ loginAttempts' = loginAttempts + 1
    /\ \E ok \in BOOLEAN :
          IF ok
          THEN /\ loginResult' = "ok"
               /\ pc' = "fetch"
          ELSE /\ loginResult' = "fail"
               /\ pc' = IF loginAttempts' < MAX_RETRIES
                        THEN "login" ELSE "finally"
    /\ UNCHANGED <<previous_appointments, openSessions, loopTasks, inFlight,
                   readyVars, checker, current_appointments, pending,
                   selected, delivered, prevAtStart, setupResult, fetchResult,
                   sendFailed, notifyChannel, exceptChannel, closeResult,
                   sessionsAcquired, fetchAttempts, repeated, startVars,
                   announced>>
    /\ prevCycle' = IF pc' \in {"login", "fetch"} THEN prevCycle
                    ELSE NoPrevCycle

\* a login whose failure falls through to the fetch
LoginFallsThrough ==
    /\ pc = "login"
    /\ \E ok \in BOOLEAN :
          /\ loginResult' = IF ok THEN "ok" ELSE "fail"
          /\ pc' = "fetch"
    /\ UNCHANGED <<previous_appointments, openSessions, loopTasks, inFlight,
                   readyVars, checker, current_appointments, pending,
                   selected, delivered, prevAtStart, setupResult, fetchResult,
                   sendFailed, notifyChannel, exceptChannel, closeResult>>
    /\ loginAttempts' = loginAttempts + 1
    /\ UNCHANGED <<sessionsAcquired, fetchAttempts>>
    /\ prevCycle' = IF pc' = "fetch" THEN prevCycle ELSE NoPrevCycle
    /\ UNCHANGED repeated
    /\ UNCHANGED <<startVars>>
    /\ UNCHANGED <<announced>>

\* a login whose failure forgets the stored snapshot
LoginForgets ==
    /\ pc = "login"
    /\ \E ok \in BOOLEAN :
          IF ok
          THEN /\ loginResult' = "ok"
               /\ pc' = "fetch"
               /\ UNCHANGED previous_appointments
          ELSE /\ loginResult' = "fail"
               /\ pc' = "finally"
               /\ previous_appointments' = {}
    /\ UNCHANGED <<openSessions, loopTasks, inFlight,
                   readyVars, checker, current_appointments, pending,
                   selected, delivered, prevAtStart, setupResult, fetchResult,
                   sendFailed, notifyChannel, exceptChannel, closeResult>>
    /\ loginAttempts' = loginAttempts + 1
    /\ UNCHANGED <<sessionsAcquired, fetchAttempts>>
    /\ prevCycle' = IF pc' = "fetch" THEN prevCycle ELSE NoPrevCycle
    /\ UNCHANGED repeated
    /\ UNCHANGED <<startVars>>
    /\ UNCHANGED <<announced>>

\* if checker.login(): login returns True, or catches its exception and
\* returns False, in which case the whole if-body is skipped
Login ==
    /\ pc = "login"
    /\ \E ok \in BOOLEAN :
          IF ok
          THEN /\ loginResult' = "ok"
               /\ pc' = "fetch"
          ELSE /\ loginResult' = "fail"
               /\ pc' = "finally"
    /\ UNCHANGED <<previous_appointments, openSessions, loopTasks, inFlight,
                   readyVars, checker, current_appointments, pending,
                   selected, delivered, prevAtStart, setupResult, fetchResult,
                   sendFailed, notifyChannel, exceptChannel, closeResult>>
    /\ loginAttempts' = loginAttempts + 1
    /\ UNCHANGED <<sessionsAcquired, fetchAttempts>>
    /\ prevCycle' = IF pc' = "fetch" THEN prevCycle ELSE NoPrevCycle
    /\ UNCHANGED repeated
    /\ UNCHANGED <<startVars>>
    /\ UNCHANGED <<announced>>

\* appointments = checker.check_availability(); set(appointments).
\* A snapshot that was really fetched and lacks a slot ends that slot's
\* unbroken presence; a failed fetch has observed nothing.
\* A navigation or parse exception is caught inside check_availability,
\* which then returns [] like the "no appointments" page does
CheckAvailability ==
    /\ pc = "fetch"
    /\ \/ /\ fetchResult' = "ok"
          /\ \E appointments \in ApptLists :
                current_appointments' = ToSet(appointments)
       \/ /\ fetchResult' = "fail"
          /\ current_appointments' = ToSet(<<>>)
    /\ pc' = "notify"
    /\ UNCHANGED <<previous_appointments, openSessions, loopTasks, inFlight,
                   readyVars, checker, pending, selected, delivered,
                   prevAtStart, setupResult, loginResult, sendFailed,
                   notifyChannel, exceptChannel, closeResult>>
    /\ fetchAttempts' = fetchAttempts + 1
    /\ UNCHANGED <<sessionsAcquired, loginAttempts>>
    /\ repeated' = (/\ fetchResult' = "ok"
                     /\ prevCycle.ok
                     /\ prevCycle.fetched = current_appointments')
    /\ prevCycle' = NoPrevCycle
    /\ UNCHANGED <<startVars>>
    /\ announced' = IF fetchResult' = "ok"
                    THEN announced \cap current_appointments'
                    ELSE announced

\* channel = client.get_channel(...); if channel: compose the message and
\* suspend in channel.send; with no channel go on to the state update
Notify ==
    /\ pc = "notify"
    /\ \E channel \in BOOLEAN :
          IF channel
          THEN /\ selected' = SelectNotification(previous_appointments,
                                                 current_appointments)
               /\ pending' = selected'
               /\ pc' = "send"
               /\ notifyChannel' = "found"
          ELSE /\ notifyChannel' = "missing"
               /\ pc' = "update"
               /\ UNCHANGED <<selected, pending>>
    /\ UNCHANGED <<previous_appointments, openSessions, loopTasks, inFlight,
                   readyVars, checker, current_appointments, delivered,
                   prevAtStart, setupResult, loginResult, fetchResult,
                   sendFailed, exceptChannel, closeResult>>
    /\ UNCHANGED <<attemptVars>>
    /\ UNCHANGED <<prevCycle, repeated>>
    /\ UNCHANGED <<startVars>>
    /\ UNCHANGED <<announced>>

\* a send after which the try body raises although the message went out
SendDoneThenRaises ==
    /\ pc = "send"
    /\ \E ok \in BOOLEAN :
          IF ok
          THEN /\ delivered' = Append(delivered, pending)
               /\ announced' = IF pending.kind = "NewSlots"
                                THEN announced \cup pending.slots
                                ELSE announced
               /\ pc' = "except"
               /\ UNCHANGED sendFailed
          ELSE /\ sendFailed' = TRUE
               /\ pc' = "except"
               /\ UNCHANGED <<delivered, announced>>
    /\ pending' = NoMsg
    /\ UNCHANGED <<previous_appointments, openSessions, loopTasks, inFlight,
                   readyVars, checker, current_appointments, selected,
                   prevAtStart, setupResult, loginResult, fetchResult,
                   notifyChannel, exceptChannel, closeResult>>
    /\ UNCHANGED <<attemptVars>>
    /\ UNCHANGED <<prevCycle, repeated>>
    /\ UNCHANGED <<startVars>>

\* resumed from `await channel.send(message)`: delivered, or the send
\* raised and control jumps to the except block
SendDone ==
    /\ pc = "send"
    /\ \E ok \in BOOLEAN :
          IF ok
          THEN /\ delivered' = Append(delivered, pending)
               /\ announced' = IF pending.kind = "NewSlots"
                                THEN announced \cup pending.slots
                                ELSE announced
               /\ pc' = "update"
               /\ UNCHANGED sendFailed
          ELSE /\ sendFailed' = TRUE
               /\ pc' = "except"
               /\ UNCHANGED <<delivered, announced>>
    /\ pending' = NoMsg
    /\ UNCHANGED <<previous_appointments, openSessions, loopTasks, inFlight,
                   readyVars, checker, current_appointments, selected,
                   prevAtStart, setupResult, loginResult, fetchResult,
                   notifyChannel, exceptChannel, closeResult>>
    /\ UNCHANGED <<attemptVars>>
    /\ UNCHANGED <<prevCycle, repeated>>
    /\ UNCHANGED <<startVars>>

\* previous_appointments = current_appointments
UpdatePrevious ==
    /\ pc = "update"
    /\ previous_appointments' = current_appointments
    /\ pc' = "finally"
    /\ UNCHANGED <<openSessions, loopTasks, inFlight, readyVars, checker,
                   current_appointments, pending, selected, delivered,
                   prevAtStart, setupResult, loginResult, fetchResult,
                   sendFailed, notifyChannel, exceptChannel, closeResult>>
    /\ UNCHANGED <<attemptVars>>
    /\ UNCHANGED <<prevCycle, repeated>>
    /\ UNCHANGED <<startVars>>
    /\ UNCHANGED <<announced>>

\* except Exception: look the channel up again and send the error message
ExceptHandler ==
    /\ pc = "except"
    /\ \E channel \in BOOLEAN :
          IF channel
          THEN /\ pending' = ErrorMsg
               /\ pc' = "errsend"
               /\ exceptChannel' = "found"
          ELSE /\ exceptChannel' = "missing"
               /\ pc' = "finally"
               /\ UNCHANGED pending
    /\ UNCHANGED <<previous_appointments, openSessions, loopTasks, inFlight,
                   readyVars, checker, current_appointments, selected,
                   delivered, prevAtStart, setupResult, loginResult,
                   fetchResult, sendFailed, notifyChannel, closeResult>>
    /\ UNCHANGED <<attemptVars>>
    /\ UNCHANGED <<prevCycle, repeated>>
    /\ UNCHANGED <<startVars>>
    /\ UNCHANGED <<announced>>

\* resumed from `await channel.send(error_message)`: delivered, or the
\* send raised and the inner except logs it
ErrSendDone ==
    /\ pc = "errsend"
    /\ \E ok \in BOOLEAN :
          IF ok
          THEN /\ delivered' = Append(delivered, pending)
               /\ UNCHANGED sendFailed
          ELSE /\ sendFailed' = TRUE
               /\ UNCHANGED delivered
    /\ pending' = NoMsg
    /\ pc' = "finally"
    /\ UNCHANGED <<previous_appointments, openSessions, loopTasks, inFlight,
                   readyVars, checker, current_appointments, selected,
                   prevAtStart, setupResult, loginResult, fetchResult,
                   notifyChannel, exceptChannel, closeResult>>
    /\ UNCHANGED <<attemptVars>>
    /\ UNCHANGED <<prevCycle, repeated>>
    /\ UNCHANGED <<startVars>>
    /\ UNCHANGED <<announced>>

\* a finally block whose close() lets the quit error escape the coroutine,
\* which ends the loop task
FinallyEscapes ==
    /\ pc = "finally"
    /\ IF checker
       THEN \/ /\ closeResult' = "ok"
               /\ openSessions' = openSessions - 1
               /\ UNCHANGED loopTasks
            \/ /\ closeResult' = "error"
               /\ openSessions' \in {openSessions - 1, openSessions}
               /\ openSessions' < MaxSessions
               /\ loopTasks' = 0
       ELSE /\ closeResult' = "skipped"
            /\ UNCHANGED <<openSessions, loopTasks>>
    /\ pc' = "idle"
    /\ inFlight' = inFlight - 1
    /\ UNCHANGED <<previous_appointments, readyVars, checker,
                   current_appointments, pending, selected, delivered,
                   prevAtStart, setupResult, loginResult, fetchResult,
                   sendFailed, notifyChannel, exceptChannel>>
    /\ UNCHANGED <<attemptVars>>
    /\ UNCHANGED <<prevCycle, repeated>>
    /\ UNCHANGED <<startVars>>
    /\ UNCHANGED <<announced>>

\* finally: if checker: checker.close().  close() quits the driver; a quit
\* that raises is logged, and the browser may or may not be gone.  The
\* iteration is over and the loop sleeps until the next tick
Finally ==
    /\ pc = "finally"
    /\ IF checker
       THEN \/ /\ closeResult' = "ok"
               /\ openSessions' = openSessions - 1
            \/ /\ closeResult' = "error"
               /\ openSessions' \in {openSessions - 1, openSessions}
               /\ openSessions' < MaxSessions
       ELSE /\ closeResult' = "skipped"
            /\ UNCHANGED openSessions
    /\ pc' = "idle"
    /\ inFlight' = inFlight - 1
    /\ UNCHANGED <<previous_appointments, loopTasks, readyVars, checker,
                   current_appointments, pending, selected, delivered,
                   prevAtStart, setupResult, loginResult, fetchResult,
                   sendFailed, notifyChannel, exceptChannel>>
    /\ UNCHANGED <<attemptVars>>
    /\ UNCHANGED <<prevCycle, repeated>>
    /\ UNCHANGED <<startVars>>
    /\ UNCHANGED <<announced>>

Next ==
    \/ Startup
    \/ OnReady
    \/ OnReadySendDone
    \/ Tick
    \/ SetupDriver
    \/ Login
    \/ CheckAvailability
    \/ Notify
    \/ SendDone
    \/ UpdatePrevious
    \/ ExceptHandler
    \/ ErrSendDone
    \/ Finally

Spec == Init /\ [][Next]_vars

\* The timer fires at every interval, every Selenium wait is bounded by
\* its 20 s timeout, and every send returns or raises
CycleStep ==
    \/ SetupDriver \/ Login \/ CheckAvailability \/ Notify \/ SendDone
    \/ UpdatePrevious \/ ExceptHandler \/ ErrSendDone \/ Finally

FairSpec ==
    /\ Init /\ [][Next]_vars
    /\ WF_vars(Tick)
    /\ WF_vars(CycleStep)
    /\ WF_vars(OnReadySendDone)

TypeOK ==
    /\ previous_appointments \subseteq Slots
    /\ current_appointments \subseteq Slots
    /\ pc \in {"idle", "setup", "login", "fetch", "notify", "send", "update",
               "except", "errsend", "finally"}
    /\ openSessions \in 0..MaxSessions
    /\ inFlight \in 0..1
    /\ loopTasks \in 0..1
    /\ readyCount \in 0..MaxReady
    /\ readyPending \in 0..MaxReady

\* ---- properties ----

\* the cycle has passed the channel lookup of line 329
Classified == fetchResult # "none" /\ pc # "notify"

\* the three cases of the change detector, as the message `msg` chosen for
\* previous snapshot P and current snapshot C
IsClassification(msg, P, C) ==
    /\ (C \ P # {} => msg = NewSlots(C \ P))
    /\ (C \ P = {} /\ C = {} => msg = NoneAvailable)
    /\ (C \ P = {} /\ C # {} => msg = UnchangedAvailable(C))

\* C1 as stated: every cycle that logged in and fetched selects exactly one
\* notification for its previous and current snapshots: NewSlots(C \ P) when
\* C \ P is non-empty, else NoneAvailable when C is empty, else
\* UnchangedAvailable(C)
C1_SelectsInEveryCycle ==
    Classified =>
        IsClassification(selected, prevAtStart, current_appointments)

\* C1 amended: the selection is made when the channel lookup returns a
\* channel, and then follows the three cases; when the lookup returns no
\* channel, no notification is selected
C1_SelectsWhenChannelFound ==
    Classified =>
        /\ notifyChannel = "found" =>
              IsClassification(selected, prevAtStart, current_appointments)
        /\ notifyChannel = "missing" => selected = NoMsg
        /\ notifyChannel \in {"found", "missing"}

\* C1 witness: a cycle with an overlapping previous snapshot announced only
\* the added slot
C1_Witness ==
    /\ Classified
    /\ selected.kind = "NewSlots"
    /\ selected.slots # current_appointments
    /\ prevAtStart \cap current_appointments # {}

\* C2: a cycle whose login failed leaves previous_appointments equal to its
\* value at the start of the cycle
C2_LoginFailureKeepsSnapshot ==
    loginResult = "fail" => previous_appointments = prevAtStart

\* C2 witness: a login-failed cycle has completed with a non-empty snapshot
\* stored by an earlier cycle
C2_Witness ==
    /\ loginResult = "fail"
    /\ pc = "idle"
    /\ prevAtStart # {}

\* C3 as stated: a cycle whose availability fetch failed after a successful
\* login leaves previous_appointments unchanged
C3_FetchFailureKeepsSnapshot ==
    (loginResult = "ok" /\ fetchResult = "fail") =>
        previous_appointments = prevAtStart

\* C4 as stated: a cycle that failed at login or at the fetch, and whose
\* channel lookups and sends all worked, has delivered the generic failure
\* notification and no availability notification
C4_FailureIsReported ==
    (/\ pc = "idle"
     /\ loginResult = "fail" \/ fetchResult = "fail"
     /\ ~sendFailed
     /\ notifyChannel # "missing"
     /\ exceptChannel # "missing") =>
        delivered = <<ErrorMsg>>

\* C5 as stated: no browser session is open while the scheduler is idle
C5_NoSessionWhileIdle ==
    pc = "idle" => openSessions = 0

\* a poll cycle has run to completion and the loop is asleep
CycleDone == pc = "idle" /\ setupResult # "none"

\* C6: every poll cycle, whatever its outcome, runs to completion and
\* returns the scheduler to idle, and after every completed cycle another
\* cycle is eventually started
C6_SchedulerKeepsRunning ==
    /\ (pc # "idle") ~> (pc = "idle")
    /\ CycleDone ~> (pc = "setup")

\* C6 witness: a cycle whose driver quit raised has completed and the loop
\* task is still running
C6_Witness ==
    /\ CycleDone
    /\ closeResult = "error"
    /\ loopTasks = 1

\* C7: at most one poll cycle is in flight and at most one loop task runs,
\* also after a repeated ready event
C7_AtMostOneCycle ==
    /\ inFlight <= 1
    /\ loopTasks <= 1

\* C7 witness: a cycle is suspended in its notification send while the
\* handler of a repeated ready event is in progress
C7_Witness ==
    /\ pc = "send"
    /\ inFlight = 1
    /\ readyCount > 1
    /\ readyPending > 0

\* C8 as stated: after every cycle whose login and fetch both succeeded,
\* previous_appointments equals the snapshot fetched in that cycle
C8_SnapshotStoredAfterFetch ==
    (pc = "idle" /\ loginResult = "ok" /\ fetchResult = "ok") =>
        previous_appointments = current_appointments

C10_FetchOnlyAfterLogin ==
    /\ fetchResult # "none" => loginResult = "ok"
    /\ pc = "fetch" => loginResult = "ok"

\* C10 witness: a cycle whose login failed has completed without a fetch
C10_Witness ==
    /\ CycleDone
    /\ loginResult = "fail"
    /\ fetchResult = "none"

\* C11: within one poll cycle at most one browser session is acquired,
\* login is attempted at most once and the availability fetch at most once,
\* and the cycle starts without a checker left over from an earlier cycle
C11_NoRetryWithinCycle ==
    /\ sessionsAcquired <= 1
    /\ loginAttempts <= 1
    /\ fetchAttempts <= 1
    /\ pc = "setup" => ~checker /\ sessionsAcquired = 0

\* C11 witness: a cycle whose login failed has completed after one session
\* and one login attempt, with no fetch
C11_Witness ==
    /\ CycleDone
    /\ loginResult = "fail"
    /\ sessionsAcquired = 1
    /\ loginAttempts = 1
    /\ fetchAttempts = 0

\* C12 as stated: the startup notification is delivered at most once, and
\* only before the poll loop is started and before any poll cycle has begun
C12_StartupSentOnce ==
    [][startupDelivered' # startupDelivered =>
          /\ startupDelivered = 0
          /\ loopTasks = 0
          /\ setupResult = "none"]_vars

\* C13 as stated: when this cycle and the one before it both logged in and
\* fetched the same snapshot S, the earlier cycle left previous_appointments
\* equal to S, this cycle leaves it equal to S, and for a non-empty S the
\* notification selected by this cycle is UnchangedAvailable(S)
C13_RepeatedSnapshotIsUnchanged ==
    repeated =>
        /\ prevAtStart = current_appointments
        /\ CycleDone => previous_appointments = current_appointments
        /\ (Classified /\ notifyChannel = "found"
                /\ current_appointments # {}) =>
              selected = UnchangedAvailable(current_appointments)

\* the configurations C14 is about: a required key is missing, or the
\* channel id does not parse as an integer
InvalidConfig ==
    \/ \E k \in RequiredKeys : config[k] = "missing"
    \/ config.channel_id = "nonint"

\* C14: with such a configuration the process never runs the client, exits
\* with status 1, sends no notification and runs no poll cycle
C14_InvalidConfigExits ==
    InvalidConfig =>
        /\ proc # "running"
        /\ proc = "exited" => exitStatus = 1
        /\ readyCount = 0
        /\ readyPending = 0
        /\ startupDelivered = 0
        /\ loopTasks = 0
        /\ inFlight = 0
        /\ pc = "idle"
        /\ setupResult = "none"
        /\ delivered = <<>>

\* C14 witness: the process has exited with status 1 on a configuration
\* whose channel id is a valid integer but whose bot token is missing
C14_Witness ==
    /\ proc = "exited"
    /\ exitStatus = 1
    /\ config.channel_id = "int"
    /\ config.check_interval # "malformed"
    /\ config.bot_token = "missing"

\* C15 as stated: a NewSlots message that is delivered never contains a
\* slot that an earlier NewSlots message delivered and that every snapshot
\* fetched since has contained (so that a site offering it without a break
\* is what the program has seen), whatever cycles failed in between
C15_NoDuplicateAnnouncement ==
    [][(pc = "send" /\ pending.kind = "NewSlots"
            /\ Len(delivered') > Len(delivered)) =>
          pending.slots \cap announced = {}]_vars

\* the messages of kind NewSlots that this cycle has delivered
DeliveredNewSlots ==
    UNION {delivered[i].slots :
             i \in {k \in 1..Len(delivered) : delivered[k].kind = "NewSlots"}}

\* C16 as stated: every slot this cycle has added to previous_appointments
\* was delivered in a NewSlots message of this cycle
C16_RecordedOnlyIfAnnounced ==
    (previous_appointments \ prevAtStart) \subseteq DeliveredNewSlots

\* C17: a poll cycle delivers at most one message, so never both an
\* availability notification and the generic failure notification
C17_AtMostOneMessage ==
    /\ Len(delivered) <= 1
    /\ ~ \E i, j \in 1..Len(delivered) :
            /\ delivered[i].kind \in AvailabilityKinds
            /\ delivered[j] = ErrorMsg

\* C17 witness: the availability send of a cycle raised, and the failure
\* notification is the one message that cycle delivered
C17_Witness ==
    /\ CycleDone
    /\ sendFailed
    /\ selected.kind \in AvailabilityKinds
    /\ delivered = <<ErrorMsg>>

====
